---- MODULE Spec2Model ----
(***************************************************************************)
(* A model of @baadal-sdk/dapi: the process-wide client holders            *)
(* (aws/client.ts), their initialisation (aws/db.ts, aws/s3.ts,             *)
(* aws/index.ts), the bulk pipeline that sends batches in waves, and the   *)
(* forced write that retries on a key conflict.                            *)
(*                                                                         *)
(* JavaScript runs one task at a time: an action of this model is the code *)
(* that runs between two suspension points (from a call or from the        *)
(* completion of a backend request up to the next await that really        *)
(* suspends).                                                               *)
(***************************************************************************)
EXTENDS Integers, Sequences, FiniteSets, TLC

VARIABLES env, dbClient, s3Client, created, uuidCount, lastInit, calls

vars == <<env, dbClient, s3Client, created, uuidCount, lastInit, calls>>

(***************************************************************************)
(* Program constants and bounds of the model.                              *)
(***************************************************************************)
BATCH_SIZE_AsBatchWriteLimit == 20 + 5
BATCH_SIZE == 20
\* CHUNK_SIZE mistaken for the batch size
CHUNK_SIZE_AsBatch == BATCH_SIZE
CHUNK_SIZE == 10
numberOfAttempts == 3

\* the largest input of a bulk operation fills one wave and leaves MaxTail
\* batches (files, keys) for the next one
MaxTail == 1
\* short.uuid() is not called more than MaxUuid times in a behaviour
MaxUuid == 5

Backends == {"db", "s3"}
Regions == {"", "ap-south-1"}

(***************************************************************************)
(* Values.                                                                 *)
(***************************************************************************)
NoClient == [ref |-> 0, region |-> ""]
NoId == <<>>
Uuid(n) == <<"uuid", n>>

NONE == [tag |-> "none", val |-> <<>>]
NULL == [tag |-> "null", val |-> <<>>]
JSTRUE == [tag |-> "true", val |-> <<>>]
List(s) == [tag |-> "list", val |-> s]
Rejected(name) == [tag |-> name, val |-> <<>>]
PENDING == [tag |-> "pending", val |-> <<>>]
HUNG == [tag |-> "hung", val |-> <<>>]
HASHING == [tag |-> "hashing", val |-> <<>>]

\* an element of a JavaScript array of results: an object or null
Elem(k) == [isNull |-> FALSE, v |-> k]
NullElem == [isNull |-> TRUE, v |-> 0]

Min(a, b) == IF a < b THEN a ELSE b

(***************************************************************************)
(* The client holders.  A world is the part of the state the lifecycle     *)
(* functions read and write.                                               *)
(***************************************************************************)
World == [db |-> dbClient, s3 |-> s3Client, created |-> created, uuid |-> uuidCount]

ErrorName(b) == IF b = "db" THEN "DynamoDBError" ELSE "AWSS3Error"

\* init answering true also when the client was set
initReturnsTrue(w, b, region) ==
  IF w[b].client.ref = 0
  THEN [w |-> [w EXCEPT ![b] = [client |-> [ref |-> w.created[b] + 1, region |-> region],
                                id |-> Uuid(w.uuid + 1)],
                        !.created[b] = @ + 1,
                        !.uuid = @ + 1],
        ret |-> TRUE]
  ELSE [w |-> w, ret |-> TRUE]

\* init without the check of the client
initNoCheck(w, b, region) ==
  [w |-> [w EXCEPT ![b] = [client |-> [ref |-> w.created[b] + 1, region |-> region],
                           id |-> Uuid(w.uuid + 1)],
                   !.created[b] = @ + 1,
                   !.uuid = @ + 1],
   ret |-> TRUE]

\* init creating a client again when called with another region
initPerRegion(w, b, region) ==
  IF w[b].client.ref = 0 \/ w[b].client.region # region
  THEN [w |-> [w EXCEPT ![b] = [client |-> [ref |-> w.created[b] + 1, region |-> region],
                                id |-> Uuid(w.uuid + 1)],
                        !.created[b] = @ + 1,
                        !.uuid = @ + 1],
        ret |-> TRUE]
  ELSE [w |-> w, ret |-> FALSE]

\* init(region) of db.ts and of s3.ts: w is the world, b the backend
init(w, b, region) ==
  IF w[b].client.ref = 0
  THEN [w |-> [w EXCEPT ![b] = [client |-> [ref |-> w.created[b] + 1, region |-> region],
                                id |-> Uuid(w.uuid + 1)],
                        !.created[b] = @ + 1,
                        !.uuid = @ + 1],
        ret |-> TRUE]
  ELSE [w |-> w, ret |-> FALSE]

status(w, b) == w[b].id

\* tryInit that throws whatever silent is
tryInitLoud(w, b, region, silent) ==
  IF w[b].client.ref # 0
  THEN [w |-> w, threw |-> FALSE]
  ELSE LET r == IF region # "" THEN init(w, b, region) ELSE [w |-> w, ret |-> FALSE]
       IN  [w |-> r.w, threw |-> ~r.ret]

\* tryInit that never throws
tryInitSilent(w, b, region, silent) ==
  IF w[b].client.ref # 0
  THEN [w |-> w, threw |-> FALSE]
  ELSE LET r == IF region # "" THEN init(w, b, region) ELSE [w |-> w, ret |-> FALSE]
       IN  [w |-> r.w, threw |-> FALSE]

\* tryInit(silent): region is process.env.AWS_REGION || ''
tryInit(w, b, region, silent) ==
  IF w[b].client.ref # 0
  THEN [w |-> w, threw |-> FALSE]
  ELSE LET r == IF region # "" THEN init(w, b, region) ELSE [w |-> w, ret |-> FALSE]
       IN  IF region # "" /\ r.ret
           THEN [w |-> r.w, threw |-> FALSE]
           ELSE [w |-> r.w, threw |-> ~silent]

\* the modules are loaded db.ts first, then s3.ts; each runs tryInit(true)
Loaded(region) ==
  LET w0 == [db |-> [client |-> NoClient, id |-> NoId],
             s3 |-> [client |-> NoClient, id |-> NoId],
             created |-> [b \in Backends |-> 0],
             uuid |-> 0]
      w1 == tryInit(w0, "db", region, TRUE).w
  IN  tryInit(w1, "s3", region, TRUE).w

SetWorld(w) ==
  /\ dbClient' = w.db
  /\ s3Client' = w.s3
  /\ created' = w.created
  /\ uuidCount' = w.uuid

(***************************************************************************)
(* chunkifyArray (@baadal-sdk/utils), as the loop it replaced in            *)
(* db-client.ts: slices of `size` elements from index 0 on.                *)
(***************************************************************************)
\* chunkFrom taking full slices only
RECURSIVE chunkFromFullOnly(_, _, _)
chunkFromFullOnly(arr, size, i) ==
  IF i + size > Len(arr)
  THEN <<>>
  ELSE <<SubSeq(arr, i + 1, i + size)>> \o chunkFromFullOnly(arr, size, i + size)

RECURSIVE chunkFrom(_, _, _)
chunkFrom(arr, size, i) ==
  IF i >= Len(arr)
  THEN <<>>
  ELSE <<SubSeq(arr, i + 1, Min(i + size, Len(arr)))>> \o chunkFrom(arr, size, i + size)

chunkifyArray(arr, size) == chunkFrom(arr, size, 0)

(***************************************************************************)
(* Calls.  A call record holds the local variables of one asynchronous     *)
(* call of a public operation, and what the call did, kept for the         *)
(* properties: per unit (batch, file or key) how often its function was    *)
(* started, the requests sent for it and how often its function returned;  *)
(* the log entries written; the kinds of values the per-unit functions     *)
(* returned (rets) and the wave in which one first returned null; the      *)
(* length of the input list (n) and the check that refused the input       *)
(* (bad); for readItemsAll and getObjectHeadsAll what each batch or key     *)
(* returned (returned); for readItemsAll whether                           *)
(* a batch returned before an earlier batch of its wave (late); whether a  *)
(* request of the call was answered while another call was waiting         *)
(* (overlap); the item as the caller of writeItemForce passed it (given).  *)
(***************************************************************************)
BatchedOps == {"writeItemsAll", "readItemsAll", "deleteItemsAll", "deleteObjectsAll"}
PerItemOps == {"uploadFilesAll", "getObjectHeadsAll"}
BulkOps == BatchedOps \cup PerItemOps
FlagOps == {"writeItemsAll", "deleteItemsAll", "deleteObjectsAll", "uploadFilesAll"}

SingleDbOps == {"writeItem", "updateItem", "readItem", "queryItems", "scanItems", "deleteItem"}
SingleS3Ops == {"putObject", "uploadFile", "getObject", "downloadFile", "listObjects",
                "getObjectHead", "deleteObject"}
SingleOps == SingleDbOps \cup SingleS3Ops

\* db.ts uses dbClient, s3.ts uses s3Client
Backend(op) ==
  IF op \in SingleS3Ops \cup {"uploadFilesAll", "getObjectHeadsAll", "deleteObjectsAll"}
  THEN "s3" ELSE "db"

NoKey == <<>>
UserKey == <<"user", 1>>

IdleCall ==
  [op |-> "none", pc |-> "idle", result |-> NONE,
   chunked |-> <<>>, paths |-> <<>>, i |-> 0, bslist |-> <<>>,
   errFlag |-> FALSE, contents |-> NULL,
   started |-> <<>>, sent |-> <<>>, finished |-> <<>>, logs |-> {},
   rets |-> {}, firstNull |-> 0,
   table |-> "", item |-> [present |-> FALSE, key |-> <<>>], resps |-> <<>>,
   unconfigured |-> FALSE,
   n |-> 0, bad |-> "", returned |-> <<>>, late |-> FALSE, overlap |-> FALSE,
   given |-> [present |-> FALSE, key |-> <<>>]]

Done(op, r, logs) == [IdleCall EXCEPT !.op = op, !.pc = "done", !.result = r, !.logs = logs]

\* the number of units (batches, or files/keys) in the waves before wave i
RECURSIVE Offset(_, _)
Offset(chunked, i) ==
  IF i <= 1 THEN 0 ELSE Offset(chunked, i - 1) + Len(chunked[i - 1])

NumUnits(chunked) == Offset(chunked, Len(chunked) + 1)

Resolved(r) == r.tag \notin {"pending", "hashing", "hung"}
AllResolved(bslist) == \A j \in 1..Len(bslist) : Resolved(bslist[j])
AnyResolved(bslist) == \E j \in 1..Len(bslist) : Resolved(bslist[j])

\* WaveSettled giving up on a request that does not complete
WaveSettledOrHung(bslist) ==
  \A j \in 1..Len(bslist) : bslist[j].tag \notin {"pending", "hashing"}

\* await Promise.all(brlist): the caller resumes when every promise has resolved
WaveSettled(bslist) == AllResolved(bslist)

\* the input lists: items and keys are 1..n; a file has a path that is
\* absolute or relative and an extension mime-types knows or not
Items(n) == [k \in 1..n |-> k]
FileStr(f) == <<"file", f.id>>
BaseName(f) == <<"base", f.id>>
S3Path(k) == <<"s3path", k>>
NoPath == <<>>

\* uploadFile: the key is s3path when given; else the file string when it is
\* relative (file !== assertPath(file)) and its basename when it is absolute
uploadKey(f, s3path) ==
  IF s3path # NoPath THEN s3path
  ELSE IF ~f.abs THEN FileStr(f) ELSE BaseName(f)

LogTag(op) ==
  CASE op \in {"writeItemsAll", "deleteItemsAll"} -> "BatchWriteCommandInput"
    [] op = "readItemsAll" -> "BatchGetCommandInput"
    [] op = "uploadFilesAll" -> "PutObjectCommandInput"
    [] op = "getObjectHeadsAll" -> "HeadObjectCommandInput"
    [] op = "deleteObjectsAll" -> "DeleteObjectsCommandInput"

\* The synchronous part of the per-unit function of a bulk operation
\* (batchWriteItems, batchReadItems, batchDeleteItems, batchDeleteObjects,
\* getObjectHead, uploadFile), called with the client set and the table or
\* bucket validated by the caller: the status of the unit when the function
\* first suspends or returns, and the request it has sent, if any.
UnitStart(op, unit) ==
  IF op = "uploadFilesAll"
  THEN IF ~unit.typed
       THEN [status |-> NULL, req |-> <<>>, logs |-> {"Could not detect file type"}]
       ELSE [status |-> HASHING, req |-> <<>>, logs |-> {}]
  ELSE [status |-> PENDING, req |-> <<unit>>, logs |-> {}]

\* The rest of the per-unit function, run when the backend answers `resp`.
UnitResult(op, unit, resp) ==
  CASE op \in {"writeItemsAll", "deleteItemsAll", "deleteObjectsAll", "uploadFilesAll"} ->
         IF resp = "ok"
         THEN [r |-> JSTRUE, logs |-> {}]
         ELSE [r |-> NULL, logs |-> {LogTag(op)}]
    [] op = "readItemsAll" ->
         CASE resp = "ok" -> [r |-> List([k \in 1..Len(unit) |-> Elem(unit[k])]), logs |-> {}]
           [] resp = "reversed" ->
                [r |-> List([k \in 1..Len(unit) |-> Elem(unit[Len(unit) + 1 - k])]), logs |-> {}]
           [] resp = "none" -> [r |-> List(<<>>), logs |-> {}]
           [] resp = "noresp" -> [r |-> NULL, logs |-> {}]
           [] OTHER -> [r |-> NULL, logs |-> {LogTag(op)}]
    [] op = "getObjectHeadsAll" ->
         CASE resp = "ok" -> [r |-> [tag |-> "obj", val |-> <<unit>>], logs |-> {}]
           [] resp = "NotFound" -> [r |-> NULL, logs |-> {}]
           [] OTHER -> [r |-> NULL, logs |-> {LogTag(op)}]

(***************************************************************************)
(* The bulk pipeline: writeItemsAll, readItemsAll, deleteItemsAll,          *)
(* uploadFilesAll, getObjectHeadsAll, deleteObjectsAll.                    *)
(***************************************************************************)
\* brlist = bchunks.map(... => perUnit(...)): every unit of wave i is started
DispatchWave(call) ==
  LET wave == call.chunked[call.i]
      off == Offset(call.chunked, call.i)
      st(j) == UnitStart(call.op, wave[j])
      in(k) == off < k /\ k <= off + Len(wave)
  IN  [call EXCEPT
         !.bslist = [j \in 1..Len(wave) |-> st(j).status],
         !.started = [k \in DOMAIN call.started |->
                        IF in(k) THEN call.started[k] + 1 ELSE call.started[k]],
         !.sent = [k \in DOMAIN call.sent |->
                     IF in(k) THEN call.sent[k] \o st(k - off).req ELSE call.sent[k]],
         !.finished = [k \in DOMAIN call.finished |->
                         IF in(k) /\ Resolved(st(k - off).status)
                         THEN call.finished[k] + 1 ELSE call.finished[k]],
         !.logs = call.logs \cup UNION {st(j).logs : j \in 1..Len(wave)},
         !.rets = call.rets \cup {st(j).status.tag : j \in {h \in 1..Len(wave) : Resolved(st(h).status)}},
         !.firstNull = IF call.firstNull = 0 /\ \E j \in 1..Len(wave) : st(j).status = NULL
                       THEN call.i ELSE call.firstNull]

\* Array.prototype.flat() on the results of a wave: a list contributes its
\* elements, null stays an element
RECURSIVE Flat(_)
Flat(bslist) ==
  IF bslist = <<>> THEN <<>>
  ELSE (IF Head(bslist).tag = "list" THEN Head(bslist).val ELSE <<NullElem>>)
       \o Flat(Tail(bslist))

\* icontents.find(e => e === null): the first null element, or undefined
FindNull(s) ==
  IF \E k \in 1..Len(s) : s[k].isNull
  THEN [undefined |-> FALSE, e |-> NullElem]
  ELSE [undefined |-> TRUE, e |-> NullElem]

\* rList of getObjectHeadsAll: a head object or null per key
HeadList(bslist) ==
  [j \in 1..Len(bslist) |-> IF bslist[j].tag = "obj" THEN Elem(bslist[j].val[1]) ELSE NullElem]

\* contents.filter(e => !!e)
RECURSIVE FilterTruthy(_)
FilterTruthy(s) ==
  IF s = <<>> THEN <<>>
  ELSE (IF Head(s).isNull THEN <<>> ELSE <<Head(s)>>) \o FilterTruthy(Tail(s))

\* the units of a call, in the order of the input list
RECURSIVE Flatten(_)
Flatten(chunked) ==
  IF chunked = <<>> THEN <<>> ELSE Head(chunked) \o Flatten(Tail(chunked))

\* AfterWave of readItemsAll putting the new results before the earlier ones
AfterWavePrepend(call) ==
  LET next == [call EXCEPT !.i = @ + 1, !.bslist = <<>>]
      icontents == Flat(call.bslist)
      found == FindNull(icontents)
      isError == ~found.undefined /\ found.e.isNull
  IN  IF isError
      THEN [next EXCEPT !.errFlag = TRUE, !.contents = NULL]
      ELSE IF ~call.errFlag
           THEN IF call.contents # NULL
                THEN [next EXCEPT !.contents = List(icontents \o call.contents.val)]
                ELSE [next EXCEPT !.contents = List(icontents)]
           ELSE next

\* AfterWave of readItemsAll gathering results again after a failed wave
AfterWaveNoFlag(call) ==
  LET next == [call EXCEPT !.i = @ + 1, !.bslist = <<>>]
      icontents == Flat(call.bslist)
      found == FindNull(icontents)
      isError == ~found.undefined /\ found.e.isNull
  IN  IF isError
      THEN [next EXCEPT !.errFlag = TRUE, !.contents = NULL]
      ELSE IF call.contents # NULL
           THEN [next EXCEPT !.contents = List(call.contents.val \o icontents)]
           ELSE [next EXCEPT !.contents = List(icontents)]

\* AfterWave of the write, delete and upload operations with one errFlag
\* for all the calls
AfterWaveSharedFlag(call) ==
  LET isSuccess == \A j \in 1..Len(call.bslist) : call.bslist[j] = JSTRUE
      shared == \E d \in DOMAIN calls : calls[d].errFlag
  IN  [call EXCEPT !.i = @ + 1, !.bslist = <<>>,
                   !.errFlag = IF ~isSuccess \/ shared THEN TRUE ELSE @]

\* AfterWave with the flag assigned from the last wave alone
AfterWaveLastWins(call) ==
  LET isSuccess == \A j \in 1..Len(call.bslist) : call.bslist[j] = JSTRUE
  IN  [call EXCEPT !.i = @ + 1, !.bslist = <<>>, !.errFlag = ~isSuccess]

\* the code after `await Promise.all(...)` up to the end of the loop body
AfterWave(call) ==
  LET next == [call EXCEPT !.i = @ + 1, !.bslist = <<>>]
  IN  CASE call.op \in FlagOps ->
             LET isSuccess == \A j \in 1..Len(call.bslist) : call.bslist[j] = JSTRUE
             IN  [next EXCEPT !.errFlag = IF ~isSuccess THEN TRUE ELSE @]
        [] call.op = "readItemsAll" ->
             LET icontents == Flat(call.bslist)
                 found == FindNull(icontents)
                 isError == ~found.undefined /\ found.e.isNull
             IN  IF isError
                 THEN [next EXCEPT !.errFlag = TRUE, !.contents = NULL]
                 ELSE IF ~call.errFlag
                      THEN IF call.contents # NULL
                           THEN [next EXCEPT !.contents = List(call.contents.val \o icontents)]
                           ELSE [next EXCEPT !.contents = List(icontents)]
                      ELSE next
        [] call.op = "getObjectHeadsAll" ->
             LET rList == HeadList(call.bslist)
             IN  IF call.contents # NULL
                 THEN [next EXCEPT !.contents = List(call.contents.val \o rList)]
                 ELSE [next EXCEPT !.contents = List(rList)]

\* Finish with getObjectHeadsAll returning null when a head is missing
FinishHeadsNullOnError(call) ==
  LET r == CASE call.op \in FlagOps -> IF call.errFlag THEN NULL ELSE JSTRUE
             [] call.op = "readItemsAll" -> call.contents
             [] call.op = "getObjectHeadsAll" ->
                  IF call.contents # NULL /\ Len(call.contents.val) > 0
                  THEN IF \E k \in DOMAIN call.contents.val : call.contents.val[k].isNull
                       THEN NULL
                       ELSE List(FilterTruthy(call.contents.val))
                  ELSE call.contents
  IN  [call EXCEPT !.pc = "done", !.result = r]

\* the code after the loop
Finish(call) ==
  LET r == CASE call.op \in FlagOps -> IF call.errFlag THEN NULL ELSE JSTRUE
             [] call.op = "readItemsAll" -> call.contents
             [] call.op = "getObjectHeadsAll" ->
                  IF call.contents # NULL /\ Len(call.contents.val) > 0
                  THEN List(FilterTruthy(call.contents.val))
                  ELSE call.contents
  IN  [call EXCEPT !.pc = "done", !.result = r]

\* RunLoop leaving the loop once a wave has failed
RECURSIVE RunLoopShortCircuit(_)
RunLoopShortCircuit(call) ==
  IF call.i > Len(call.chunked) \/ call.errFlag
  THEN Finish(call)
  ELSE LET d == DispatchWave(call)
       IN  IF WaveSettled(d.bslist)
           THEN RunLoopShortCircuit(AfterWave(d))
           ELSE [d EXCEPT !.pc = "wait"]

\* the loop from `i < chunked.length` on, up to the next await that suspends
\* or to the return
RECURSIVE RunLoop(_)
RunLoop(call) ==
  IF call.i > Len(call.chunked)
  THEN Finish(call)
  ELSE LET d == DispatchWave(call)
       IN  IF WaveSettled(d.bslist)
           THEN RunLoop(AfterWave(d))
           ELSE [d EXCEPT !.pc = "wait"]

\* ValidBulkInput accepting an empty list
ValidBulkInputNoLength(op, inp) ==
  /\ inp.table # ""
  /\ inp.isArray
  /\ (op = "uploadFilesAll" /\ inp.hasPaths) =>
        (inp.pathsIsArray /\ Len(inp.paths) > 0 /\ Len(inp.list) = Len(inp.paths))

\* ValidBulkInput accepting s3paths of another length than files
ValidBulkInputAnyPaths(op, inp) ==
  /\ inp.table # ""
  /\ inp.isArray
  /\ Len(inp.list) > 0
  /\ (op = "uploadFilesAll" /\ inp.hasPaths) => (inp.pathsIsArray /\ Len(inp.paths) > 0)

\* the input checks of a bulk operation
ValidBulkInput(op, inp) ==
  /\ inp.table # ""
  /\ inp.isArray
  /\ Len(inp.list) > 0
  /\ (op = "uploadFilesAll" /\ inp.hasPaths) =>
        (inp.pathsIsArray /\ Len(inp.paths) > 0 /\ Len(inp.list) = Len(inp.paths))

\* which of the input checks refuses an input: the table or bucket name, the
\* list, the s3paths of uploadFilesAll, or none
RefusedBy(op, inp) ==
  IF inp.table = "" THEN "name"
  ELSE IF ~inp.isArray \/ Len(inp.list) = 0 THEN "list"
  ELSE IF op = "uploadFilesAll" /\ inp.hasPaths
          /\ ~(inp.pathsIsArray /\ Len(inp.paths) > 0 /\ Len(inp.list) = Len(inp.paths))
       THEN "paths"
       ELSE ""

\* pathsChunk[j] taken from the first chunk of paths in every wave
PathAtFirstChunk(paths, i, j) ==
  IF 1 \in 1..Len(paths) /\ j \in 1..Len(paths[1]) THEN paths[1][j] ELSE NoPath

\* pathsChunk[j]: undefined when the list of paths is shorter
PathAt(paths, i, j) ==
  IF i \in 1..Len(paths) /\ j \in 1..Len(paths[i]) THEN paths[i][j] ELSE NoPath

\* the body of a bulk operation after the client checks
BulkBody(op, inp) ==
  IF ~ValidBulkInput(op, inp)
  THEN Done(op, NULL, {})
  ELSE LET chunked == IF op \in BatchedOps
                      THEN chunkifyArray(chunkifyArray(inp.list, BATCH_SIZE), CHUNK_SIZE)
                      ELSE chunkifyArray(inp.list, CHUNK_SIZE)
           paths == IF op = "uploadFilesAll" /\ inp.hasPaths
                    THEN chunkifyArray(inp.paths, CHUNK_SIZE)
                    ELSE IF op = "uploadFilesAll"
                         THEN [w \in 1..Len(chunked) |->
                                 [j \in 1..Len(chunked[w]) |-> FileStr(chunked[w][j])]]
                         ELSE <<>>
           n == NumUnits(chunked)
       IN  RunLoop([IdleCall EXCEPT
                      !.op = op, !.chunked = chunked, !.paths = paths, !.i = 1,
                      !.started = [k \in 1..n |-> 0],
                      !.sent = [k \in 1..n |-> <<>>],
                      !.finished = [k \in 1..n |-> 0],
                      !.returned = IF op \in {"readItemsAll", "getObjectHeadsAll"}
                                   THEN [k \in 1..n |-> NONE]
                                   ELSE <<>>])

(***************************************************************************)
(* Single-item operations: one call, one request.                          *)
(***************************************************************************)
SingleLogTag(op) ==
  CASE op = "writeItem" -> "PutCommandInput"
    [] op = "updateItem" -> "UpdateCommandInput"
    [] op = "readItem" -> "GetCommandInput"
    [] op = "queryItems" -> "QueryCommandInput"
    [] op = "scanItems" -> "ScanCommandInput"
    [] op = "deleteItem" -> "DeleteCommandInput"
    [] op \in {"putObject", "uploadFile"} -> "PutObjectCommandInput"
    [] op \in {"getObject", "downloadFile"} -> "GetObjectCommandInput"
    [] op = "listObjects" -> "ListObjectsV2CommandInput"
    [] op = "getObjectHead" -> "HeadObjectCommandInput"
    [] op = "deleteObject" -> "DeleteObjectCommandInput"

\* the answers of the backend to the request of a single-item operation:
\* "ok" with data, "empty" (no Item, no Items, no Contents, an empty body),
\* "truncated" (data and LastEvaluatedKey or IsTruncated), the errors named
\* NoSuchKey and NotFound, and any other error
SingleResponses(op) ==
  CASE op \in {"writeItem", "updateItem", "deleteItem", "putObject", "uploadFile",
               "deleteObject"} -> {"ok", "error"}
    [] op = "readItem" -> {"ok", "empty", "error"}
    [] op = "getObject" -> {"ok", "empty", "NoSuchKey", "error"}
    [] op \in {"queryItems", "scanItems", "listObjects"} -> {"ok", "empty", "truncated", "error"}
    [] op \in {"downloadFile", "getObjectHead"} -> {"ok", "NoSuchKey", "NotFound", "error"}

\* the error name an operation takes for the absence of the key
AbsenceError(op) ==
  CASE op = "downloadFile" -> "NoSuchKey"
    [] op = "getObjectHead" -> "NotFound"
    [] OTHER -> "none"

\* the body of a single-item operation after the client and input checks, up
\* to its first await
SingleBody(op, inp) ==
  LET call == [IdleCall EXCEPT !.op = op, !.pc = "wait", !.i = 1,
                               !.chunked = <<<<inp.file>>>>, !.paths = <<<<inp.s3path>>>>,
                               !.started = <<1>>, !.sent = <<<<>>>>, !.finished = <<0>>]
  IN  IF op = "uploadFile"
      THEN IF ~inp.file.typed
           THEN [call EXCEPT !.pc = "done", !.result = NULL, !.finished = <<1>>,
                             !.logs = {"Could not detect file type"}]
           ELSE [call EXCEPT !.bslist = <<HASHING>>]
      ELSE [call EXCEPT !.bslist = <<PENDING>>, !.sent = <<<<op>>>>]

\* what a single-item operation returns and logs when send resolves
SingleValue(op, resp) ==
  CASE resp = "empty" ->
         [r |-> IF op \in {"readItem", "getObject", "queryItems", "scanItems", "listObjects"}
                THEN NULL ELSE JSTRUE,
          logs |-> {}]
    [] resp = "truncated" ->
         [r |-> List(<<Elem(1)>>),
          logs |-> IF op = "scanItems" THEN {"[scanItems] Partial results obtained!"}
                   ELSE IF op = "listObjects" THEN {"[listObjects] Partial results obtained!"}
                   ELSE {}]
    [] resp = "ok" ->
         [r |-> IF op \in {"readItem", "getObject", "getObjectHead"}
                THEN [tag |-> "obj", val |-> <<1>>]
                ELSE IF op \in {"queryItems", "scanItems", "listObjects"}
                     THEN List(<<Elem(1)>>)
                     ELSE JSTRUE,
          logs |-> {}]

\* SingleResult writing no log entry for an error
SingleResultQuiet(op, resp) ==
  IF resp \in {"error", "NoSuchKey", "NotFound"}
  THEN [r |-> NULL, logs |-> {}]
  ELSE SingleValue(op, resp)

\* SingleResult writing a log entry for every error
SingleResultLogsAll(op, resp) ==
  IF resp \in {"error", "NoSuchKey", "NotFound"}
  THEN [r |-> NULL, logs |-> {SingleLogTag(op)}]
  ELSE SingleValue(op, resp)

\* the rest of a single-item operation, run when the backend answers `resp`:
\* the value returned and the log entries written
SingleResult(op, resp) ==
  IF resp = AbsenceError(op)
  THEN [r |-> NULL, logs |-> {}]
  ELSE IF resp \in {"error", "NoSuchKey", "NotFound"}
       THEN [r |-> NULL, logs |-> {SingleLogTag(op)}]
       ELSE SingleValue(op, resp)

(***************************************************************************)
(* writeItemForce: a conditional put, tried again with a new key when the  *)
(* key exists.                                                             *)
(***************************************************************************)
IsConflictAny(resp) == resp # "ok"

\* err.name === 'ConditionalCheckFailedException'
IsConflict(resp) == resp = "ConditionalCheckFailedException"

CanRetryOneMore(i) == i <= numberOfAttempts - 1

\* i < numberOfAttempts - 1
CanRetry(i) == i < numberOfAttempts - 1

\* NewKey forgetting to replace the key
SameKey(item, w) == [item |-> item, w |-> w]

\* (item as any)[key] = short.uuid()
NewKey(item, w) ==
  [item |-> [item EXCEPT !.key = Uuid(w.uuid + 1)], w |-> [w EXCEPT !.uuid = @ + 1]]

\* ForceHelper putting a copy of the item with the generated key and leaving
\* the item of the caller as it is
ForceHelperCopy(call, w, region) ==
  LET t == tryInit(w, "db", region, FALSE)
  IN  IF t.threw
      THEN [call |-> [call EXCEPT !.pc = "done", !.result = Rejected(ErrorName("db"))],
            w |-> t.w]
      ELSE IF t.w.db.client.ref = 0 \/ call.table = "" \/ ~call.item.present
      THEN [call |-> [call EXCEPT !.pc = "done", !.result = NULL], w |-> t.w]
      ELSE LET k == IF call.item.key = NoKey
                    THEN NewKey(call.item, t.w)
                    ELSE [item |-> call.item, w |-> t.w]
           IN  [call |-> [call EXCEPT !.pc = "wait",
                                      !.sent = <<Append(call.sent[1], k.item.key)>>],
                w |-> k.w]

\* writeItemForceHelper(table, item, key, i) from its entry up to its await:
\* call holds table, item and i, w is the world, region is AWS_REGION
ForceHelper(call, w, region) ==
  LET t == tryInit(w, "db", region, FALSE)
  IN  IF t.threw
      THEN [call |-> [call EXCEPT !.pc = "done", !.result = Rejected(ErrorName("db"))],
            w |-> t.w]
      ELSE IF t.w.db.client.ref = 0 \/ call.table = "" \/ ~call.item.present
      THEN [call |-> [call EXCEPT !.pc = "done", !.result = NULL], w |-> t.w]
      ELSE LET k == IF call.item.key = NoKey
                    THEN NewKey(call.item, t.w)
                    ELSE [item |-> call.item, w |-> t.w]
           IN  [call |-> [call EXCEPT !.pc = "wait", !.item = k.item,
                                      !.sent = <<Append(call.sent[1], k.item.key)>>],
                w |-> k.w]

\* writeItemForceHelper after its await, when the backend answers `resp`
ForceAfter(call, resp, w, region) ==
  LET c1 == [call EXCEPT !.resps = Append(@, resp)]
  IN  IF resp = "ok"
      THEN [call |-> [c1 EXCEPT !.pc = "done",
                                !.result = [tag |-> "item", val |-> <<call.item.key>>]],
            w |-> w]
      ELSE IF IsConflict(resp)
      THEN IF CanRetry(call.i)
           THEN LET k == NewKey(call.item, w)
                IN  ForceHelper([c1 EXCEPT !.item = k.item, !.i = @ + 1], k.w, region)
           ELSE [call |-> [c1 EXCEPT !.pc = "done", !.result = NULL,
                                     !.logs = @ \cup {"PutCommandInput",
                                                      "[ERROR] Maximum attempts overflow!"}],
                 w |-> w]
      ELSE [call |-> [c1 EXCEPT !.pc = "done", !.result = NULL], w |-> w]

(***************************************************************************)
(* Inputs.                                                                 *)
(***************************************************************************)
Files(n, u, a) == [k \in 1..n |-> [id |-> k, typed |-> (k # u), abs |-> (k = a)]]
S3Paths(n) == [k \in 1..n |-> S3Path(k)]

ListInput(table, isArray, list) ==
  [table |-> table, isArray |-> isArray, list |-> list,
   hasPaths |-> FALSE, pathsIsArray |-> FALSE, paths |-> <<>>]

\* the inputs of a bulk operation with lists of the lengths `sizes`, and the
\* inputs its checks refuse
BulkInputs(op, sizes) ==
  IF op = "uploadFilesAll"
  THEN {ListInput("bucket", TRUE, Files(n, 0, 0)) : n \in sizes}
       \cup {[ListInput("bucket", TRUE, Files(n, 0, 1)) EXCEPT
                !.hasPaths = TRUE, !.pathsIsArray = TRUE, !.paths = S3Paths(n)] : n \in sizes}
       \cup UNION {{ListInput("bucket", TRUE, Files(n, u, n)) : u \in 1..n} :
                     n \in {m \in sizes : m < CHUNK_SIZE}}
       \cup UNION {{[ListInput("bucket", TRUE, Files(n, 0, 0)) EXCEPT
                       !.hasPaths = TRUE, !.pathsIsArray = TRUE, !.paths = S3Paths(m)] :
                      m \in {0, n - 1}} : n \in {m \in sizes : m < CHUNK_SIZE}}
       \cup {[ListInput("bucket", TRUE, Files(1, 0, 0)) EXCEPT !.hasPaths = TRUE]}
       \cup {ListInput("", TRUE, Files(1, 0, 0)), ListInput("bucket", FALSE, <<>>),
             ListInput("bucket", TRUE, <<>>)}
  ELSE {ListInput("name", TRUE, Items(n)) : n \in sizes}
       \cup {ListInput("", TRUE, Items(1)), ListInput("name", FALSE, <<>>),
             ListInput("name", TRUE, <<>>)}

(***************************************************************************)
(* Actions.                                                                *)
(***************************************************************************)
Handle(b) == IF b = "db" THEN dbClient ELSE s3Client

\* another call than c is waiting for the backend
Overlaps(c) == \E d \in DOMAIN calls \ {c} : calls[d].pc = "wait"

\* the call was made with the client of its backend unset and no AWS_REGION
Mark(call, b) ==
  [call EXCEPT !.unconfigured = (Handle(b).client.ref = 0 /\ env = "")]

\* a bulk operation is called with one of the inputs `inputs`: it runs up to
\* its first await that suspends
StartBulk(c, op, inputs) ==
  /\ calls[c].pc = "idle"
  /\ \E inp \in inputs :
       LET b == Backend(op)
           t == tryInit(World, b, env, FALSE)
       IN  /\ SetWorld(t.w)
           /\ calls' = [calls EXCEPT ![c] =
                         [Mark(IF t.threw THEN Done(op, Rejected(ErrorName(b)), {})
                               ELSE IF t.w[b].client.ref = 0 THEN Done(op, NULL, {})
                               ELSE BulkBody(op, inp), b)
                          EXCEPT !.n = Len(inp.list), !.bad = RefusedBy(op, inp)]]
  /\ UNCHANGED <<env, lastInit>>

\* a single-item operation is called
StartSingle(c, op, inputs) ==
  /\ calls[c].pc = "idle"
  /\ \E inp \in inputs :
       LET b == Backend(op)
           t == tryInit(World, b, env, FALSE)
       IN  /\ SetWorld(t.w)
           /\ calls' = [calls EXCEPT ![c] = Mark(
                          IF t.threw THEN Done(op, Rejected(ErrorName(b)), {})
                          ELSE IF t.w[b].client.ref = 0 \/ ~inp.valid THEN Done(op, NULL, {})
                          ELSE SingleBody(op, inp), b)]
  /\ UNCHANGED <<env, lastInit>>

\* the backend answers the request of a single-item operation
CompleteSingle(c, resp) ==
  LET call == calls[c]
  IN  /\ call.pc = "wait"
      /\ call.op \in SingleOps
      /\ call.bslist = <<PENDING>>
      /\ resp \in SingleResponses(call.op)
      /\ LET u == SingleResult(call.op, resp)
         IN  calls' = [calls EXCEPT ![c] =
                         [call EXCEPT !.pc = "done", !.result = u.r, !.bslist = <<u.r>>,
                                      !.finished = <<1>>, !.logs = @ \cup u.logs,
                                      !.resps = <<resp>>]]
      /\ UNCHANGED <<env, dbClient, s3Client, created, uuidCount, lastInit>>

\* writeItemForce is called
StartForce(c, table, item) ==
  /\ calls[c].pc = "idle"
  /\ uuidCount + numberOfAttempts <= MaxUuid
  /\ LET r == ForceHelper([IdleCall EXCEPT !.op = "writeItemForce", !.table = table,
                                           !.item = item, !.given = item, !.i = 0,
                                           !.sent = <<<<>>>>],
                          World, env)
     IN  /\ SetWorld(r.w)
         /\ calls' = [calls EXCEPT ![c] = Mark(r.call, "db")]
  /\ UNCHANGED <<env, lastInit>>

\* the backend answers the put request of a writeItemForce
CompleteForce(c, resp) ==
  /\ calls[c].pc = "wait"
  /\ calls[c].op = "writeItemForce"
  /\ LET r == ForceAfter(calls[c], resp, World, env)
     IN  /\ SetWorld(r.w)
         /\ calls' = [calls EXCEPT ![c] = [r.call EXCEPT !.overlap = @ \/ Overlaps(c)]]
  /\ UNCHANGED <<env, lastInit>>

\* fileHash(filepath) of an uploadFile resolves: the put request is sent.
\* The files of a wave are read in the order they were started (the model
\* leaves out the other orders of these local reads, not those of the
\* backend's answers).
HashDone(c, j) ==
  LET call == calls[c]
  IN  /\ call.pc = "wait"
      /\ call.op \in {"uploadFilesAll", "uploadFile"}
      /\ j \in 1..Len(call.bslist)
      /\ call.bslist[j] = HASHING
      /\ \A h \in 1..(j - 1) : call.bslist[h] # HASHING
      /\ LET k == Offset(call.chunked, call.i) + j
             key == uploadKey(call.chunked[call.i][j], PathAt(call.paths, call.i, j))
         IN  calls' = [calls EXCEPT ![c] =
                         [call EXCEPT !.bslist[j] = PENDING,
                                      !.sent[k] = Append(@, key)]]
      /\ UNCHANGED <<env, dbClient, s3Client, created, uuidCount, lastInit>>

\* the backend answers the request of unit j of the current wave: the per-unit
\* function returns, and when the wave has settled the caller goes on
Complete(c, j, resp) ==
  LET call == calls[c]
  IN  /\ call.pc = "wait"
      /\ call.op \in BulkOps
      /\ j \in 1..Len(call.bslist)
      /\ call.bslist[j] = PENDING
      /\ LET k == Offset(call.chunked, call.i) + j
             u == UnitResult(call.op, call.chunked[call.i][j], resp)
             c1 == [call EXCEPT !.bslist[j] = u.r,
                                !.finished[k] = @ + 1,
                                !.logs = @ \cup u.logs,
                                !.rets = @ \cup {u.r.tag},
                                !.overlap = @ \/ Overlaps(c),
                                !.returned = IF call.op \in {"readItemsAll", "getObjectHeadsAll"}
                                             THEN [@ EXCEPT ![k] = u.r] ELSE @,
                                !.late = IF call.op = "readItemsAll"
                                         THEN @ \/ \E h \in 1..(j - 1) : call.bslist[h] = PENDING
                                         ELSE @,
                                !.firstNull = IF @ = 0 /\ u.r = NULL THEN call.i ELSE @]
         IN  calls' = [calls EXCEPT ![c] =
                         IF WaveSettled(c1.bslist) THEN RunLoop(AfterWave(c1)) ELSE c1]
      /\ UNCHANGED <<env, dbClient, s3Client, created, uuidCount, lastInit>>

\* process.env.AWS_REGION is set or cleared by the application
SetEnv(region) ==
  /\ env' = region
  /\ UNCHANGED <<dbClient, s3Client, created, uuidCount, lastInit, calls>>

\* db.init(region) or s3.init(region) is called
CallInit(b, region) ==
  LET r == init(World, b, region)
  IN  /\ SetWorld(r.w)
      /\ lastInit' = [fn |-> b, ret |-> r.ret, tick |-> ~lastInit.tick]
      /\ UNCHANGED <<env, calls>>

\* the init of aws/index.ts with `dbInit(region) && s3Init(region)`
AwsInitShortCircuit(region) ==
  LET before == [b \in Backends |-> Handle(b).client.ref # 0]
  IN  IF region = ""
      THEN /\ lastInit' = [fn |-> "aws", ret |-> FALSE, tick |-> ~lastInit.tick,
                           region |-> region, before |-> before]
           /\ UNCHANGED <<env, dbClient, s3Client, created, uuidCount, calls>>
      ELSE LET cond1 == init(World, "db", region)
               cond2 == IF cond1.ret THEN init(cond1.w, "s3", region)
                        ELSE [w |-> cond1.w, ret |-> FALSE]
           IN  /\ SetWorld(cond2.w)
               /\ lastInit' = [fn |-> "aws", ret |-> (cond1.ret /\ cond2.ret),
                               tick |-> ~lastInit.tick,
                               region |-> region, before |-> before]
               /\ UNCHANGED <<env, calls>>

\* init(region) of aws/index.ts; lastInit also keeps the region passed and
\* which clients were set before the call
AwsInit(region) ==
  LET before == [b \in Backends |-> Handle(b).client.ref # 0]
  IN  IF region = ""
      THEN /\ lastInit' = [fn |-> "aws", ret |-> FALSE, tick |-> ~lastInit.tick,
                           region |-> region, before |-> before]
           /\ UNCHANGED <<env, dbClient, s3Client, created, uuidCount, calls>>
      ELSE LET cond1 == init(World, "db", region)
               cond2 == init(cond1.w, "s3", region)
           IN  /\ SetWorld(cond2.w)
               /\ lastInit' = [fn |-> "aws", ret |-> (cond1.ret /\ cond2.ret),
                               tick |-> ~lastInit.tick,
                               region |-> region, before |-> before]
               /\ UNCHANGED <<env, calls>>

\* the caller takes the result of a call that has returned
Return(c) ==
  /\ calls[c].pc = "done"
  /\ calls' = [calls EXCEPT ![c] = IdleCall]
  /\ UNCHANGED <<env, dbClient, s3Client, created, uuidCount, lastInit>>

(***************************************************************************)
(* SpecBulk: one caller runs bulk operations, one after the other, in a    *)
(* process loaded with AWS_REGION set.                                     *)
(***************************************************************************)
\* lastInit: the last call of an init function, its result, and a bit that
\* every such call flips
NoInit == [fn |-> "none", ret |-> FALSE, tick |-> FALSE]

\* the lengths of the input lists: one batch, two batches, the 45 items of
\* three batches in one wave, and two waves
BatchCounts ==
  {1, BATCH_SIZE + 1, 2 * BATCH_SIZE + 5, BATCH_SIZE * (CHUNK_SIZE + MaxTail - 1) + 1}
ItemCounts == {1, 3, CHUNK_SIZE + MaxTail}
BulkSizes(op) == IF op \in BatchedOps THEN BatchCounts ELSE ItemCounts
BulkResponses == {"ok", "error"}

InitBulk ==
  /\ env = "ap-south-1"
  /\ LET w == Loaded(env)
     IN  /\ dbClient = w.db
         /\ s3Client = w.s3
         /\ created = w.created
         /\ uuidCount = w.uuid
  /\ lastInit = NoInit
  /\ calls = [c \in {1} |-> IdleCall]

NextBulk ==
  \E c \in DOMAIN calls :
    \/ \E op \in BulkOps : StartBulk(c, op, BulkInputs(op, BulkSizes(op)))
    \/ \E j \in 1..CHUNK_SIZE : HashDone(c, j)
    \/ \E j \in 1..CHUNK_SIZE : \E resp \in BulkResponses : Complete(c, j, resp)
    \/ Return(c)

SpecBulk == InitBulk /\ [][NextBulk]_vars

(***************************************************************************)
(* Properties of the bulk pipeline (SpecBulk).                             *)
(***************************************************************************)
BulkCalls(ops, pcs) == {c \in DOMAIN calls : calls[c].op \in ops /\ calls[c].pc \in pcs}

\* the wave a unit belongs to when the units are sent CHUNK_SIZE at a time
WaveOf(k) == ((k - 1) \div 10) + 1

\* the units of a call whose request is in flight at the backend
InFlight(call) ==
  {k \in DOMAIN call.sent : Len(call.sent[k]) > call.finished[k]}

\* C1: writeItemsAll, deleteItemsAll, deleteObjectsAll and uploadFilesAll,
\* called with valid input and the client set, return true if and only if
\* every per-batch (per-file) call returned true, in whatever wave, and
\* return null otherwise.
C1_ResultIsConjunction ==
  \A c \in BulkCalls(FlagOps, {"done"}) :
    Len(calls[c].started) > 0 =>
      /\ calls[c].result \in {JSTRUE, NULL}
      /\ calls[c].result = JSTRUE <=> calls[c].rets \subseteq {"true"}

C1_Witness ==
  \E c \in BulkCalls(FlagOps, {"done"}) :
    /\ Len(calls[c].chunked) = 2
    /\ calls[c].firstNull = 1
    /\ "true" \in calls[c].rets
    /\ calls[c].result = NULL

C3_WavesSequential ==
  \A c \in BulkCalls(BulkOps, {"wait", "done"}) :
    \A k1 \in DOMAIN calls[c].started :
      calls[c].finished[k1] = 0 =>
        \A k2 \in DOMAIN calls[c].started :
          calls[c].started[k2] > 0 => WaveOf(k2) <= WaveOf(k1)

C3_Witness ==
  \E c \in BulkCalls(BulkOps, {"wait"}) :
    /\ calls[c].i = 2
    /\ calls[c].firstNull = 1
    /\ \E k \in DOMAIN calls[c].sent : WaveOf(k) = 2 /\ k \in InFlight(calls[c])

\* C4: at every moment at most CHUNK_SIZE = 10 backend requests of one bulk
\* call are in flight.
C4_InFlightBounded ==
  \A c \in BulkCalls(BulkOps, {"wait", "done"}) : Cardinality(InFlight(calls[c])) <= 10

C4_Witness ==
  \E c \in BulkCalls(BulkOps, {"wait"}) : Cardinality(InFlight(calls[c])) = 10

(***************************************************************************)
(* SpecLife: one caller runs operations of every kind, one after the       *)
(* other, on short inputs, while the application sets AWS_REGION and calls *)
(* the init functions.                                                     *)
(***************************************************************************)
SingleInputs(op) ==
  IF op = "uploadFile"
  THEN {[valid |-> TRUE, file |-> Files(1, u, a)[1], s3path |-> sp] :
          u \in {0, 1}, a \in {0, 1}, sp \in {NoPath, S3Path(1)}}
       \cup {[valid |-> FALSE, file |-> Files(1, 0, 0)[1], s3path |-> NoPath]}
  ELSE {[valid |-> v, file |-> Files(1, 0, 0)[1], s3path |-> NoPath] : v \in BOOLEAN}

ForceItems ==
  {[present |-> FALSE, key |-> NoKey], [present |-> TRUE, key |-> NoKey],
   [present |-> TRUE, key |-> UserKey]}
ForceResponses == {"ok", "ConditionalCheckFailedException", "error"}

LifeSizes(op) == IF op \in BatchedOps THEN {1, BATCH_SIZE + 1} ELSE {1, 2}
LifeResponses == {"ok", "NotFound", "error"}

\* the process after the modules are loaded, with AWS_REGION set or not
InitProcess ==
  /\ env \in Regions
  /\ LET w == Loaded(env)
     IN  /\ dbClient = w.db
         /\ s3Client = w.s3
         /\ created = w.created
         /\ uuidCount = w.uuid
  /\ lastInit = NoInit

InitLife ==
  /\ InitProcess
  /\ calls = [c \in {1} |-> IdleCall]

NextLife ==
  \/ \E region \in Regions : SetEnv(region)
  \/ \E b \in Backends : \E region \in Regions : CallInit(b, region)
  \/ \E region \in Regions : AwsInit(region)
  \/ \E c \in DOMAIN calls :
       \/ \E op \in BulkOps : StartBulk(c, op, BulkInputs(op, LifeSizes(op)))
       \/ \E j \in 1..CHUNK_SIZE : HashDone(c, j)
       \/ \E j \in 1..CHUNK_SIZE : \E resp \in LifeResponses : Complete(c, j, resp)
       \/ \E op \in SingleOps : StartSingle(c, op, SingleInputs(op))
       \/ \E resp \in {"ok", "empty", "truncated", "NoSuchKey", "NotFound", "error"} :
            CompleteSingle(c, resp)
       \/ \E table \in {"", "name"} : \E item \in ForceItems : StartForce(c, table, item)
       \/ \E resp \in ForceResponses : CompleteForce(c, resp)
       \/ Return(c)

SpecLife == InitLife /\ [][NextLife]_vars

(***************************************************************************)
(* SpecForce: one caller runs writeItemForce calls, one after the other.   *)
(***************************************************************************)
InitForce ==
  /\ InitProcess
  /\ calls = [c \in {1} |-> IdleCall]

NextForce ==
  \/ \E region \in Regions : CallInit("db", region)
  \/ \E c \in DOMAIN calls :
       \/ \E table \in {"", "name"} : \E item \in ForceItems : StartForce(c, table, item)
       \/ \E resp \in ForceResponses : CompleteForce(c, resp)
       \/ Return(c)

SpecForce == InitForce /\ [][NextForce]_vars

(***************************************************************************)
(* Properties of writeItemForce (SpecForce).                               *)
(***************************************************************************)
ForceCalls == {c \in DOMAIN calls : calls[c].op = "writeItemForce" /\ calls[c].pc # "idle"}
Conflict == "ConditionalCheckFailedException"

\* C5: one writeItemForce call sends at most 3 put requests; when all three
\* fail with ConditionalCheckFailedException the call has returned null and
\* no 4th request is sent.
C5_AtMostThreePuts ==
  \A c \in ForceCalls :
    /\ Len(calls[c].sent[1]) <= 3
    /\ calls[c].resps = <<Conflict, Conflict, Conflict>> =>
         /\ calls[c].pc = "done"
         /\ calls[c].result = NULL
         /\ Len(calls[c].sent[1]) = 3

C5_Witness ==
  \E c \in ForceCalls :
    calls[c].pc = "done" /\ calls[c].resps = <<Conflict, Conflict, Conflict>>

\* C6: when an attempt of writeItemForce, the first or a later one, fails
\* with an error other than ConditionalCheckFailedException, the call has
\* returned null and has sent no request after the failed one.
C6_OtherErrorEnds ==
  \A c \in ForceCalls :
    \A p \in 1..Len(calls[c].resps) :
      calls[c].resps[p] \notin {"ok", Conflict} =>
        /\ calls[c].pc = "done"
        /\ calls[c].result = NULL
        /\ Len(calls[c].sent[1]) = p

C6_Witness ==
  \E c \in ForceCalls :
    calls[c].pc = "done" /\ calls[c].resps = <<Conflict, "error">>

\* C7: when the first attempt of writeItemForce conflicts and the second
\* succeeds, the call returns the item, whose key is the key of the second
\* request and differs from the key of the first.
C7_RetryReturnsNewKey ==
  \A c \in ForceCalls :
    (calls[c].pc = "done" /\ calls[c].resps = <<Conflict, "ok">>) =>
      /\ calls[c].result.tag = "item"
      /\ calls[c].result.val = <<calls[c].sent[1][2]>>
      /\ calls[c].sent[1][2] # calls[c].sent[1][1]

C7_Witness ==
  \E c \in ForceCalls :
    /\ calls[c].pc = "done"
    /\ calls[c].resps = <<Conflict, "ok">>
    /\ calls[c].sent[1][1] = UserKey

(***************************************************************************)
(* Properties of the client holders (SpecLife).                            *)
(***************************************************************************)
HandleNext(b) == IF b = "db" THEN dbClient' ELSE s3Client'

\* a step that is a call of db.init (b = "db") or of s3.init (b = "s3")
IsInitCall(b) == lastInit'.tick # lastInit.tick /\ lastInit'.fn = b

\* C8: init(region) called with the client set returns false, creates no
\* client and leaves the client and the id that status() returns unchanged;
\* called with the client unset it creates one client and returns true.
C8_InitIdempotent ==
  [][\A b \in Backends :
       IsInitCall(b) =>
         IF Handle(b).client.ref # 0
         THEN /\ lastInit'.ret = FALSE
              /\ HandleNext(b) = Handle(b)
              /\ created'[b] = created[b]
         ELSE /\ lastInit'.ret = TRUE
              /\ HandleNext(b).client.ref # 0
              /\ HandleNext(b).id # NoId
              /\ created'[b] = created[b] + 1]_vars

C8_Witness ==
  \E b \in Backends :
    lastInit.fn = b /\ lastInit.ret = FALSE /\ Handle(b).client.ref # 0

\* C9: once the client of a holder is set, no step (a call of an init
\* function, an automatic initialisation, an operation) replaces or clears
\* it, and its id stays the same.
C9_FirstWriterWins ==
  [][\A b \in Backends : Handle(b).client.ref # 0 => HandleNext(b) = Handle(b)]_vars

C9_Witness ==
  /\ created = [b \in Backends |-> 1]
  /\ env = ""
  /\ lastInit.fn = "aws" /\ lastInit.ret = FALSE
  /\ \E c \in DOMAIN calls :
       calls[c].op = "writeItem" /\ calls[c].pc = "done" /\ calls[c].result = JSTRUE

\* C10 as stated: an operation called with the client unset and no
\* AWS_REGION returns null.
C10_UnconfiguredReturnsNull ==
  \A c \in DOMAIN calls :
    (calls[c].pc = "done" /\ calls[c].unconfigured) => calls[c].result = NULL

\* C10, amended: an operation called with the client unset and no AWS_REGION
\* calls tryInit() with silent false, so the call is rejected with the error
\* of its module (DynamoDBError, AWSS3Error) before its input is checked; it
\* sends no request.
C10_UnconfiguredRejects ==
  \A c \in DOMAIN calls :
    calls[c].unconfigured =>
      /\ calls[c].pc = "done"
      /\ calls[c].result = Rejected(ErrorName(Backend(calls[c].op)))
      /\ \A k \in DOMAIN calls[c].sent : calls[c].sent[k] = <<>>

C10_Witness ==
  \E c \in DOMAIN calls :
    calls[c].unconfigured /\ calls[c].op = "deleteObjectsAll" /\ calls[c].pc = "done"

(***************************************************************************)
(* Properties of the input checks of the bulk operations.                  *)
(***************************************************************************)
\* the calls of bulk operations that have returned and whose input one of
\* the input checks refuses
RefusedCalls == {c \in BulkCalls(BulkOps, {"done"}) : calls[c].bad # ""}

NothingSent(call) == \A k \in DOMAIN call.sent : call.sent[k] = <<>>

\* C11 as stated: a bulk operation called with invalid input returns null and
\* sends no request, whatever the state of the client.
C11_InvalidInputNull ==
  \A c \in RefusedCalls : calls[c].result = NULL /\ NothingSent(calls[c])

\* C11, amended: a bulk operation called with invalid input sends no request
\* and calls no per-batch function; it returns null when the client is set
\* or AWS_REGION is set, and is rejected with the error of its module when
\* the client is unset and AWS_REGION is not set, as tryInit() runs before
\* the input checks.
C11_InvalidInputNullIfConfigured ==
  \A c \in RefusedCalls :
    /\ calls[c].started = <<>>
    /\ NothingSent(calls[c])
    /\ calls[c].result =
         IF calls[c].unconfigured THEN Rejected(ErrorName(Backend(calls[c].op))) ELSE NULL

C11_Witness ==
  \E c \in RefusedCalls :
    /\ calls[c].op = "deleteItemsAll"
    /\ calls[c].bad = "list"
    /\ ~calls[c].unconfigured
    /\ calls[c].result = NULL

(***************************************************************************)
(* SpecRead: one caller runs readItemsAll calls, one after the other, on   *)
(* 45 keys (three batches in one wave) and on the keys of ReadWaves waves. *)
(* A batch of the short input gets any answer; in the long input the first *)
(* batch of each wave gets any answer and the other batches succeed.  The  *)
(* answers of a wave arrive in any order.                                  *)
(***************************************************************************)
ReadWaves == 3

ReadCounts == {2 * BATCH_SIZE + 5, BATCH_SIZE * CHUNK_SIZE * (ReadWaves - 1) + 1}

\* the answers to a BatchGetCommand: the items of the keys in the order of
\* the keys, in another order, no item, no Responses entry for the table, an
\* error
ReadAnswers == {"ok", "reversed", "none", "noresp", "error"}

ReadAnswersAt(call, j) ==
  IF Len(call.chunked) <= 1 \/ j = 1 THEN ReadAnswers ELSE {"ok"}

NextRead ==
  \E c \in DOMAIN calls :
    \/ StartBulk(c, "readItemsAll", BulkInputs("readItemsAll", ReadCounts))
    \/ \E j \in 1..CHUNK_SIZE : \E resp \in ReadAnswersAt(calls[c], j) : Complete(c, j, resp)
    \/ Return(c)

SpecRead == InitBulk /\ [][NextRead]_vars

\* the readItemsAll calls that have returned after sending requests
ReadCalls == {c \in BulkCalls({"readItemsAll"}, {"done"}) : calls[c].started # <<>>}

\* the lists the batches returned, one after the other in the order of the
\* batches
RECURSIVE ConcatReturned(_)
ConcatReturned(returned) ==
  IF returned = <<>> THEN <<>>
  ELSE Head(returned).val \o ConcatReturned(Tail(returned))

\* C12: when every batch read of a readItemsAll call returned a list, the
\* call returns the concatenation of these lists in the order of the batches
\* (wave by wave, batch by batch), whatever order the answers arrived in.
C12_ResultIsConcatenation ==
  \A c \in ReadCalls :
    (\A k \in DOMAIN calls[c].returned : calls[c].returned[k].tag = "list") =>
      calls[c].result = List(ConcatReturned(calls[c].returned))

C12_Witness ==
  \E c \in ReadCalls :
    /\ Len(calls[c].chunked) > 2
    /\ calls[c].late
    /\ \A k \in DOMAIN calls[c].returned : calls[c].returned[k].tag = "list"
    /\ Len(calls[c].result.val) = calls[c].n
    /\ calls[c].returned[1].val[1] = Elem(BATCH_SIZE)

\* C13: a readItemsAll call returns null if and only if a batch read of it
\* returned null, in whatever wave; it returns a list otherwise; and every
\* batch of every wave, also after the failed one, was read exactly once.
C13_NullIffBatchNull ==
  \A c \in ReadCalls :
    /\ calls[c].result = NULL <=>
         \E k \in DOMAIN calls[c].returned : calls[c].returned[k] = NULL
    /\ calls[c].result # NULL => calls[c].result.tag = "list"
    /\ \A k \in DOMAIN calls[c].started :
         /\ calls[c].started[k] = 1
         /\ calls[c].finished[k] = 1
         /\ Len(calls[c].sent[k]) = 1

C13_Witness ==
  \E c \in ReadCalls :
    /\ Len(calls[c].chunked) > 2
    /\ calls[c].firstNull = 2
    /\ \A k \in DOMAIN calls[c].returned :
         WaveOf(k) # 2 => (calls[c].returned[k].tag = "list" /\ calls[c].returned[k].val # <<>>)
    /\ calls[c].result = NULL

(***************************************************************************)
(* SpecChunk: chunkifyArray applied to the sequences over two values of    *)
(* length up to MaxLen with the sizes 1..MaxSize (call 0), next to a       *)
(* caller of the batched bulk operations (call 1).                         *)
(***************************************************************************)
MaxLen == 5
MaxSize == 3

ChunkInputs == UNION {[1..len -> {"a", "b"}] : len \in 0..MaxLen}

ChunkCall(arr, size) ==
  [op |-> "chunkifyArray", pc |-> "input", arr |-> arr, size |-> size, chunks |-> <<>>]

InitChunk ==
  /\ env = "ap-south-1"
  /\ InitProcess
  /\ \E arr \in ChunkInputs : \E size \in 1..MaxSize :
       calls = [c \in {0, 1} |-> IF c = 0 THEN ChunkCall(arr, size) ELSE IdleCall]

\* chunkifyArray(arr, size) is called
ApplyChunk ==
  /\ calls[0].pc = "input"
  /\ calls' = [calls EXCEPT ![0] =
                 [calls[0] EXCEPT !.pc = "output",
                                  !.chunks = chunkifyArray(calls[0].arr, calls[0].size)]]
  /\ UNCHANGED <<env, dbClient, s3Client, created, uuidCount, lastInit>>

ChunkCounts == {1, BATCH_SIZE + 1, 2 * BATCH_SIZE + 5}

NextChunk ==
  \/ ApplyChunk
  \/ \E op \in BatchedOps : StartBulk(1, op, BulkInputs(op, ChunkCounts))
  \/ \E j \in 1..CHUNK_SIZE : \E resp \in BulkResponses : Complete(1, j, resp)
  \/ Return(1)

SpecChunk == InitChunk /\ [][NextChunk]_vars

\* C14: the chunks of chunkifyArray(S, N), concatenated in order, give S;
\* every chunk has at most N elements and at least one, every chunk but the
\* last has N, and the empty sequence gives no chunk.  So the batches a
\* batched bulk call sends have at most 20 elements each, their
\* concatenation in order is the input list, and when the call has returned
\* each batch was sent exactly once.
C14_ChunksPartition ==
  /\ calls[0].pc = "output" =>
       LET S == calls[0].arr
           N == calls[0].size
           ch == calls[0].chunks
       IN  /\ Flatten(ch) = S
           /\ \A i \in 1..Len(ch) : Len(ch[i]) >= 1 /\ Len(ch[i]) <= N
           /\ \A i \in 1..(Len(ch) - 1) : Len(ch[i]) = N
           /\ S = <<>> => ch = <<>>
  /\ \A c \in BulkCalls(BatchedOps, {"wait", "done"}) :
       LET batches == Flatten(calls[c].chunked)
       IN  calls[c].bad = "" =>
           /\ Flatten(batches) = Items(calls[c].n)
           /\ \A k \in 1..Len(batches) :
                /\ Len(batches[k]) <= 20
                /\ calls[c].sent[k] \in {<<>>, <<batches[k]>>}
                /\ calls[c].pc = "done" => calls[c].sent[k] = <<batches[k]>>

C14_Witness ==
  /\ calls[0].pc = "output"
  /\ Len(calls[0].arr) = 5
  /\ calls[0].size = 2
  /\ Len(calls[0].chunks) = 3
  /\ calls[1].pc = "done"
  /\ calls[1].n = 45
  /\ Len(Flatten(calls[1].sent)) = 3

(***************************************************************************)
(* The number of requests and of waves (SpecBulk).                         *)
(***************************************************************************)
\* the least integer not below a / b
Ceil(a, b) == (a + b - 1) \div b

\* C15: a batched bulk call on n >= 1 items that has returned has sent
\* ceil(n / 20) batch requests in ceil(ceil(n / 20) / 10) waves; 45 items
\* give 3 requests in 1 wave.
C15_RequestAndWaveCount ==
  \A c \in BulkCalls(BatchedOps, {"done"}) :
    (calls[c].bad = "" /\ calls[c].n >= 1) =>
      /\ Len(Flatten(calls[c].sent)) = Ceil(calls[c].n, 20)
      /\ Len(calls[c].chunked) = Ceil(Ceil(calls[c].n, 20), 10)
      /\ calls[c].n = 45 => (Len(Flatten(calls[c].sent)) = 3 /\ Len(calls[c].chunked) = 1)

C15_Witness ==
  \E c \in BulkCalls({"writeItemsAll"}, {"done"}) :
    /\ calls[c].n = 45
    /\ Len(Flatten(calls[c].sent)) = 3
    /\ Len(calls[c].chunked) = 1

(***************************************************************************)
(* SpecSingle: one caller runs single-item operations, one after the       *)
(* other, while the application sets AWS_REGION and calls the init         *)
(* functions.                                                              *)
(***************************************************************************)
NextSingle ==
  \/ \E region \in Regions : SetEnv(region)
  \/ \E b \in Backends : \E region \in Regions : CallInit(b, region)
  \/ \E c \in DOMAIN calls :
       \/ \E op \in SingleOps : StartSingle(c, op, SingleInputs(op))
       \/ HashDone(c, 1)
       \/ \E resp \in {"ok", "empty", "truncated", "NoSuchKey", "NotFound", "error"} :
            CompleteSingle(c, resp)
       \/ Return(c)

SpecSingle == InitLife /\ [][NextSingle]_vars

\* the calls of the operations `ops` that have returned after the backend
\* answered their request
AnsweredCalls(ops) == {c \in DOMAIN calls : /\ calls[c].op \in ops
                                            /\ calls[c].pc = "done"
                                            /\ calls[c].resps # <<>>}

\* C16: a single-item DB operation whose request fails with a backend error
\* logs the request parameters and the error and returns null; readItem of
\* an absent key returns null too and writes no log entry.
C16_ErrorLoggedAbsenceSilent ==
  \A c \in AnsweredCalls(SingleDbOps) :
    /\ calls[c].resps = <<"error">> =>
         (calls[c].result = NULL /\ calls[c].logs = {SingleLogTag(calls[c].op)})
    /\ (calls[c].op = "readItem" /\ calls[c].resps = <<"empty">>) =>
         (calls[c].result = NULL /\ calls[c].logs = {})

C16_Witness ==
  \E c \in AnsweredCalls({"updateItem"}) :
    calls[c].resps = <<"error">> /\ calls[c].logs = {"UpdateCommandInput"}

\* C17: downloadFile answered with the error NoSuchKey and getObjectHead
\* answered with the error NotFound return null and write no log entry; with
\* any other error they return null and write an error log entry.
C17_KeyNotFoundSilent ==
  \A c \in AnsweredCalls({"downloadFile", "getObjectHead"}) :
    LET absent == IF calls[c].op = "downloadFile" THEN "NoSuchKey" ELSE "NotFound"
        resp == calls[c].resps[1]
    IN  /\ resp = absent => (calls[c].result = NULL /\ calls[c].logs = {})
        /\ resp \in {"error", "NoSuchKey", "NotFound"} \ {absent} =>
             (calls[c].result = NULL /\ calls[c].logs = {SingleLogTag(calls[c].op)})

C17_Witness ==
  \E c \in AnsweredCalls({"downloadFile"}) :
    calls[c].resps = <<"NoSuchKey">> /\ calls[c].logs = {}

PartialWarnings ==
  {"[queryItems] Partial results obtained!", "[scanItems] Partial results obtained!",
   "[listObjects] Partial results obtained!"}

\* C18: queryItems, scanItems and listObjects answered with a truncated
\* result write a warning and return the first page.
C18_TruncationWarns ==
  \A c \in AnsweredCalls({"queryItems", "scanItems", "listObjects"}) :
    calls[c].resps = <<"truncated">> =>
      /\ calls[c].logs \cap PartialWarnings # {}
      /\ calls[c].result = List(<<Elem(1)>>)

(***************************************************************************)
(* Properties of getObjectHeadsAll and of uploadFilesAll (SpecBulk).       *)
(***************************************************************************)
\* C19: a getObjectHeadsAll call in which a head request failed with a
\* backend error returns null.
C19_HeadsAllNullOnError ==
  \A c \in BulkCalls({"getObjectHeadsAll"}, {"done"}) :
    LogTag("getObjectHeadsAll") \in calls[c].logs => calls[c].result = NULL

UploadPaths(call) == Flatten(call.paths)

\* C21: uploadFilesAll called without s3paths sends each file under the key
\* uploadFile derives for the file when called without s3path: the given
\* path when it is relative, the basename when it is absolute.
C21_KeyAsUploadFile ==
  \A c \in BulkCalls({"uploadFilesAll"}, {"wait", "done"}) :
    LET files == Flatten(calls[c].chunked)
    IN  \A k \in 1..Len(files) :
          (calls[c].sent[k] # <<>> /\ UploadPaths(calls[c])[k] = FileStr(files[k])) =>
            calls[c].sent[k] = <<uploadKey(files[k], NoPath)>>

(***************************************************************************)
(* SpecTryInit: tryInit(silent) of db.ts and of s3.ts called in every      *)
(* state of the holders, while the application sets AWS_REGION and calls   *)
(* the init functions.  lastInit keeps the last call: the holder before    *)
(* it, AWS_REGION, silent and whether it threw.                            *)
(***************************************************************************)
TryInit(b, silent) ==
  LET t == tryInit(World, b, env, silent)
  IN  /\ SetWorld(t.w)
      /\ lastInit' = [fn |-> "tryInit", b |-> b, silent |-> silent, region |-> env,
                      before |-> Handle(b), threw |-> t.threw, tick |-> ~lastInit.tick]
      /\ UNCHANGED <<env, calls>>

NextTryInit ==
  \/ \E region \in Regions : SetEnv(region)
  \/ \E b \in Backends : \E region \in Regions : CallInit(b, region)
  \/ \E b \in Backends : \E silent \in BOOLEAN : TryInit(b, silent)

SpecTryInit == InitLife /\ [][NextTryInit]_vars

\* C22: tryInit(silent) with the client set changes nothing; with the client
\* unset and AWS_REGION set it sets the client; with the client unset and no
\* AWS_REGION it leaves the client unset, and throws if and only if silent
\* is false.
C22_TryInitCases ==
  lastInit.fn = "tryInit" =>
    LET now == Handle(lastInit.b)
    IN  IF lastInit.before.client.ref # 0
        THEN ~lastInit.threw /\ now = lastInit.before
        ELSE IF lastInit.region # ""
        THEN /\ ~lastInit.threw
             /\ now.client.ref # 0
             /\ now.client.region = lastInit.region
        ELSE /\ now = lastInit.before
             /\ lastInit.threw = ~lastInit.silent

C22_Witness ==
  /\ lastInit.fn = "tryInit"
  /\ lastInit.silent
  /\ lastInit.before.client.ref = 0
  /\ lastInit.region = ""
  /\ ~lastInit.threw
  /\ Handle(lastInit.b).client.ref = 0

(***************************************************************************)
(* SpecHang: one caller runs writeItemsAll and deleteObjectsAll calls on   *)
(* one batch and on the batches of two waves.  The first two requests of a *)
(* wave succeed or fail, the others succeed; the first and the last        *)
(* request of a wave may be one the backend never answers.  Every other    *)
(* request is answered in the end.                                         *)
(***************************************************************************)
HangCounts == {1, BATCH_SIZE * (CHUNK_SIZE + MaxTail - 1) + 1}

HangAnswersAt(j) == IF j <= 2 THEN {"ok", "error"} ELSE {"ok"}

\* the promise of send for unit j of the current wave never settles
Hang(c, j) ==
  /\ calls[c].pc = "wait"
  /\ j \in 1..Len(calls[c].bslist)
  /\ calls[c].bslist[j] = PENDING
  /\ calls' = [calls EXCEPT ![c].bslist[j] = HUNG]
  /\ UNCHANGED <<env, dbClient, s3Client, created, uuidCount, lastInit>>

NextHang ==
  \E c \in DOMAIN calls :
    \/ \E op \in {"writeItemsAll", "deleteObjectsAll"} :
         StartBulk(c, op, BulkInputs(op, HangCounts))
    \/ \E j \in 1..CHUNK_SIZE : \E resp \in HangAnswersAt(j) : Complete(c, j, resp)
    \/ \E j \in {1, CHUNK_SIZE} : Hang(c, j)
    \/ Return(c)

SpecHang ==
  /\ InitBulk
  /\ [][NextHang]_vars
  /\ \A j \in 1..CHUNK_SIZE : WF_vars(\E resp \in HangAnswersAt(j) : Complete(1, j, resp))

HasHung(call) == \E j \in 1..Len(call.bslist) : call.bslist[j] = HUNG

\* C23: a bulk call that waits for its requests returns in the end unless a
\* request never completes; when it has returned every batch of every wave
\* has completed; while a request of a wave never completes the call stays
\* waiting in that wave and no batch of a later wave is started.
C23_ReturnsUnlessHung ==
  /\ (calls[1].pc = "wait") ~> (calls[1].pc = "done" \/ HasHung(calls[1]))
  /\ [](calls[1].pc = "done" =>
          \A k \in DOMAIN calls[1].finished : calls[1].finished[k] = 1)
  /\ [](HasHung(calls[1]) =>
          /\ calls[1].pc = "wait"
          /\ \A k \in DOMAIN calls[1].started :
               WaveOf(k) > calls[1].i => calls[1].started[k] = 0)
  /\ [][HasHung(calls[1]) => (HasHung(calls'[1]) /\ calls'[1].i = calls[1].i)]_vars

C23_Witness ==
  /\ calls[1].pc = "wait"
  /\ Len(calls[1].chunked) = 2
  /\ calls[1].i = 1
  /\ calls[1].bslist[1] = HUNG
  /\ \A j \in 2..Len(calls[1].bslist) : Resolved(calls[1].bslist[j])

(***************************************************************************)
(* SpecConc: two callers run writeItemsAll, deleteItemsAll and             *)
(* writeItemForce calls at the same time, on one and on three batches, in  *)
(* a process loaded with AWS_REGION set.                                   *)
(***************************************************************************)
ConcCounts == {1, 2 * BATCH_SIZE + 5}

InitConc ==
  /\ env = "ap-south-1"
  /\ InitProcess
  /\ calls = [c \in {1, 2} |-> IdleCall]

NextConc ==
  \E c \in DOMAIN calls :
    \/ \E op \in {"writeItemsAll", "deleteItemsAll"} :
         StartBulk(c, op, BulkInputs(op, ConcCounts))
    \/ \E j \in 1..CHUNK_SIZE : \E resp \in BulkResponses : Complete(c, j, resp)
    \/ \E item \in ForceItems : StartForce(c, "name", item)
    \/ \E resp \in ForceResponses : CompleteForce(c, resp)
    \/ Return(c)

SpecConc == InitConc /\ [][NextConc]_vars

\* C24: with two calls in progress at the same time, a bulk call that has
\* returned returned true if and only if every batch of its own returned
\* true; a writeItemForce call has sent at most 3 requests, one more than
\* the answers it got while it waits; and a step of one call changes
\* nothing of the other call.
C24_CallsIndependent ==
  /\ [](\A c \in {1, 2} :
          /\ (calls[c].op \in FlagOps /\ calls[c].pc = "done" /\ calls[c].bad = "") =>
                (calls[c].result = JSTRUE <=> calls[c].rets \subseteq {"true"})
          /\ (calls[c].op = "writeItemForce" /\ calls[c].pc # "idle") =>
                /\ Len(calls[c].sent[1]) <= 3
                /\ Len(calls[c].sent[1]) <= Len(calls[c].resps) + 1)
  /\ [][\A c \in {1, 2} : calls'[c] # calls[c] => calls'[3 - c] = calls[3 - c]]_vars

C24_Witness ==
  /\ calls[1].op = "writeItemsAll" /\ calls[1].pc = "done"
  /\ calls[1].overlap /\ calls[1].result = NULL
  /\ calls[2].op = "writeItemsAll" /\ calls[2].pc = "done"
  /\ calls[2].overlap /\ calls[2].result = JSTRUE /\ calls[2].n = 45

(***************************************************************************)
(* SpecDir: readDirFilesRec applied to the directory trees with up to      *)
(* MaxFiles files under up to MaxDepth nested directories, the files and   *)
(* the directories named with and without a leading dot (call 0).  A path  *)
(* is the sequence of its names; a tree is the set of the paths of its     *)
(* files, relative to dir.                                                 *)
(***************************************************************************)
MaxDepth == 2
MaxFiles == 2

DirNames == <<".e", "d">>
FileNames == <<".g", "f">>
Range(seq) == {seq[k] : k \in DOMAIN seq}

\* name.startsWith('.'), and the same of a relative path
startsWithDot(path) == Head(path) \in {".e", ".g"}

DirPaths == UNION {[1..len -> Range(DirNames)] : len \in 0..MaxDepth}
FilePaths == {dp \o <<f>> : dp \in DirPaths, f \in Range(FileNames)}
Trees == UNION {{Range(fs) : fs \in [1..k -> FilePaths]} : k \in 0..MaxFiles}

\* readDir(dir/basePath, false, hiddenItems) on the tree
readDir(tree, basePath, hiddenItems) ==
  LET isDir(d) == \E fp \in tree : /\ Len(fp) > Len(basePath) + 1
                                   /\ SubSeq(fp, 1, Len(basePath) + 1) = basePath \o <<d>>
      isFile(f) == (basePath \o <<f>>) \in tree
      shown(name) == ~startsWithDot(<<name>>)
      dirs == SelectSeq(DirNames, isDir)
      files == SelectSeq(FileNames, isFile)
  IN  IF ~hiddenItems
      THEN [dirs |-> SelectSeq(dirs, shown), files |-> SelectSeq(files, shown)]
      ELSE [dirs |-> dirs, files |-> files]

RECURSIVE readDirFilesRecHelper(_, _)
readDirFilesRecHelper(tree, basePath) ==
  LET readDirObj == readDir(tree, basePath, FALSE)
      allFiles == [k \in DOMAIN readDirObj.files |-> basePath \o <<readDirObj.files[k]>>]
      absDirs == [k \in DOMAIN readDirObj.dirs |-> basePath \o <<readDirObj.dirs[k]>>]
      filesxList == [k \in DOMAIN absDirs |-> readDirFilesRecHelper(tree, absDirs[k])]
  IN  allFiles \o Flatten(filesxList)

readDirFilesRec(tree, hiddenItems) ==
  LET allFiles == readDirFilesRecHelper(tree, <<>>)
      shown(path) == ~startsWithDot(path)
  IN  IF ~hiddenItems THEN SelectSeq(allFiles, shown) ELSE allFiles

DirCall(tree, hiddenItems) ==
  [op |-> "readDirFilesRec", pc |-> "input", tree |-> tree,
   hiddenItems |-> hiddenItems, allFiles |-> <<>>]

InitDir ==
  /\ env = "ap-south-1"
  /\ InitProcess
  /\ \E tree \in Trees : \E hiddenItems \in BOOLEAN :
       calls = [c \in {0} |-> DirCall(tree, hiddenItems)]

\* readDirFilesRec(dir, hiddenItems) is called on a readable directory
ApplyReadDirFilesRec ==
  /\ calls[0].pc = "input"
  /\ calls' = [calls EXCEPT ![0] =
                 [calls[0] EXCEPT !.pc = "output",
                                  !.allFiles = readDirFilesRec(calls[0].tree,
                                                               calls[0].hiddenItems)]]
  /\ UNCHANGED <<env, dbClient, s3Client, created, uuidCount, lastInit>>

NextDir == ApplyReadDirFilesRec

SpecDir == InitDir /\ [][NextDir]_vars

\* a file whose own name or one of whose directories starts with a dot
HiddenPath(path) == \E k \in DOMAIN path : startsWithDot(<<path[k]>>)

\* C25: readDirFilesRec(dir, true) returns every file of the tree, the dot
\* files and the files under dot directories at every depth included;
\* readDirFilesRec(dir, false) returns none of those.
C25_HiddenItemsIncluded ==
  calls[0].pc = "output" =>
    Range(calls[0].allFiles) =
      IF calls[0].hiddenItems THEN calls[0].tree
      ELSE {path \in calls[0].tree : ~HiddenPath(path)}

\* the calls of uploadFilesAll given a list of s3paths as long as the files
PairedUploads ==
  {c \in BulkCalls({"uploadFilesAll"}, {"wait", "done"}) :
     calls[c].bad = "" /\ UploadPaths(calls[c]) = S3Paths(calls[c].n)}

InitInitConc ==
  /\ InitProcess
  /\ calls = [c \in {1, 2} |-> IdleCall]

NextInitConc ==
  \/ \E region \in Regions : SetEnv(region)
  \/ \E b \in Backends : \E region \in Regions : CallInit(b, region)
  \/ \E region \in Regions : AwsInit(region)
  \/ \E c \in DOMAIN calls :
       \/ \E op \in {"writeItem", "getObjectHead"} : StartSingle(c, op, SingleInputs(op))
       \/ \E resp \in {"ok", "NotFound", "error"} : CompleteSingle(c, resp)
       \/ Return(c)

SpecInitConc == InitInitConc /\ [][NextInitConc]_vars

\* C27: under every interleaving of operations and init calls, at most one
\* client is ever created for each backend; the count of created clients
\* never goes down; a call of db.init or s3.init returns true only in the
\* step that creates the first client of its backend, and a call of the
\* init of aws/index.ts returns true only in the step that creates the
\* first client of both, so at most one init call per backend returns true.
C27_InitAtomic ==
  /\ [](\A b \in Backends : created[b] <= 1 /\ Handle(b).client.ref <= 1)
  /\ [][\A b \in Backends :
          /\ created'[b] >= created[b]
          /\ (IsInitCall(b) /\ lastInit'.ret) => (created[b] = 0 /\ created'[b] = 1)
          /\ (IsInitCall("aws") /\ lastInit'.ret) => (created[b] = 0 /\ created'[b] = 1)]_vars

C27_Witness ==
  /\ created = [b \in Backends |-> 1]
  /\ lastInit.fn = "s3" /\ lastInit.ret
  /\ calls[1].op = "writeItem" /\ calls[1].pc = "wait"
  /\ calls[2].op = "getObjectHead" /\ calls[2].pc = "wait"

\* C28: writeItemForce changes the item of the caller in place.  The first
\* request carries the key of the caller when the item has one and a
\* generated key when it has none; while the call waits and after it has
\* returned, with the item or with null, the item holds the key of the last
\* request sent; a key of the caller that conflicted is replaced and stays
\* replaced, also when all 3 attempts fail.  A call that sends no request
\* leaves the item as it was.
C28_ItemMutatedInPlace ==
  \A c \in ForceCalls :
    LET keys == calls[c].sent[1]
    IN  IF keys = <<>>
        THEN calls[c].item = calls[c].given
        ELSE /\ keys[1] = IF calls[c].given.key # NoKey THEN calls[c].given.key
                          ELSE Uuid(keys[1][2])
             /\ keys[1] # NoKey
             /\ calls[c].item.key = keys[Len(keys)]
             /\ (calls[c].resps # <<>> /\ calls[c].resps[1] = Conflict) =>
                  calls[c].item.key # calls[c].given.key
             /\ calls[c].result.tag = "item" => calls[c].result.val = <<calls[c].item.key>>

C28_Witness ==
  \E c \in ForceCalls :
    /\ calls[c].pc = "done" /\ calls[c].result = NULL
    /\ calls[c].given.key = UserKey
    /\ calls[c].resps = <<Conflict, Conflict, Conflict>>
    /\ calls[c].item.key = calls[c].sent[1][3]
    /\ calls[c].item.key # UserKey

(***************************************************************************)
(* SpecHeads: one caller runs getObjectHeadsAll on 1, 3 and                *)
(* CHUNK_SIZE + MaxTail keys; the backend answers a key with the head, or  *)
(* with NotFound (the first two keys of a wave) or another error (the      *)
(* other keys).                                                            *)
(***************************************************************************)
HeadAnswersAt(j) == IF j <= 2 THEN {"ok", "NotFound"} ELSE {"ok", "error"}

NextHeads ==
  \E c \in DOMAIN calls :
    \/ StartBulk(c, "getObjectHeadsAll", BulkInputs("getObjectHeadsAll", ItemCounts))
    \/ \E j \in 1..CHUNK_SIZE : \E resp \in HeadAnswersAt(j) : Complete(c, j, resp)
    \/ Return(c)

SpecHeads == InitBulk /\ [][NextHeads]_vars

\* the heads of the keys of `keys` whose getObjectHead returned an object in
\* `returned`, in the order of the keys
RECURSIVE HeadsOf(_, _)
HeadsOf(keys, returned) ==
  IF keys = <<>> THEN <<>>
  ELSE (IF Head(returned).tag = "obj" THEN <<Elem(Head(keys))>> ELSE <<>>)
       \o HeadsOf(Tail(keys), Tail(returned))

C30_AwsInit ==
  [][IsInitCall("aws") =>
       IF lastInit'.region = ""
       THEN /\ lastInit'.ret = FALSE
            /\ dbClient' = dbClient /\ s3Client' = s3Client /\ created' = created
       ELSE /\ \A b \in Backends :
                 /\ HandleNext(b).client.ref # 0
                 /\ Handle(b).client.ref # 0 => HandleNext(b) = Handle(b)
                 /\ Handle(b).client.ref = 0 =>
                      (HandleNext(b).client.region = lastInit'.region
                       /\ created'[b] = created[b] + 1)
            /\ lastInit'.ret = (\A b \in Backends : Handle(b).client.ref = 0)]_vars

C30_Witness ==
  /\ lastInit.fn = "aws" /\ lastInit.region # "" /\ lastInit.ret = FALSE
  /\ lastInit.before = [b \in Backends |-> b = "db"]
  /\ dbClient.client.region = ""
  /\ s3Client.client.region = lastInit.region

====
